---- MODULE Spec2Model ----
(***************************************************************************)
(* FinTwitch: the ledger / reward state machine of src/src/App.jsx         *)
(* (UserProvider), the load of the remote document at session start, the   *)
(* effect that mirrors the account to the remote document, and the daily   *)
(* streak of HabitTracker.                                                 *)
(*                                                                         *)
(* Money is counted in hundredths of a rupee (integers), so that round2    *)
(* is the rounding it is in the source.  The clock counts hours since the  *)
(* epoch: Date.now() is the clock value, a calendar date is the UTC day    *)
(* the clock value falls in.                                               *)
(***************************************************************************)
EXTENDS Integers, Sequences, FiniteSets, TLC

VARIABLES
    user,          \* the UserAccount held by useLocalState("fintwitch_user")
    now,           \* the wall clock (Date.now())
    firebaseUser,  \* TRUE once setFirebaseUser(u) has run
    loadPc,        \* position of the onAuthStateChanged callback
    remote,        \* the remote document users/<uid>, or NoDoc
    mountUser,     \* the `user` captured by the closure of the mount effect
    prev,          \* history: the UserAccount before the last operation
    op,            \* history: the last operation and its arguments
    hist,          \* history: every transaction record created, in order
    calls,         \* history: the amounts of the transact calls of this run
    dateHist,      \* history: the distinct dates login recorded, in order
    paid,          \* history: per article, how often its reward was credited
    budget,        \* the number of steps the run may still take
    tasks,         \* HabitTracker: per task id, its done flag
    streak,        \* HabitTracker: {current, best, lastDate, history}
    streakStore,   \* localStorage "fintwitch_streak"
    prevHabit,     \* history: tasks and streak before the last habit operation
    advanceDays,   \* history: the dates the streak advanced on, since the last reset
    inflight,      \* the remote writes dispatched and not yet completed
    pushed,        \* history: the notifications the last step pushed
    dispatched,    \* history: the remote writes the last step dispatched
    done,          \* history: the remote write the last step completed, if any
    writeLog,      \* history: every remote write dispatched, in order
    cache,         \* localStorage "fintwitch_user"
    readHistory,   \* ArticlesPage: the reading history
    historyStore,  \* localStorage "fintwitch_read_history"
    boot,          \* per localStorage bucket: how its component initialised
    toasts,        \* ToastsProvider: the notifications on display
    idRef,         \* ToastsProvider: idRef.current
    timers,        \* ToastsProvider: the pending removal timers
    ms,            \* the clock of the timers, in milliseconds
    pushLog,       \* history: per push, its id, its time and its ttl
    prevToasts,    \* history: the notifications before the last step
    scene,         \* DreamLifePlanner: the scene index
    stats,         \* DreamLifePlanner: happiness, consistency, wisdom
    dreamLog,      \* DreamLifePlanner: the labels of the choices applied
    sceneTimers,   \* DreamLifePlanner: the pending scene-advance timers
    visitChoices,  \* history: the choices applied since the scene last changed
    stocks,        \* StockMarketGame: per symbol, its current price
    portfolio,     \* StockMarketGame: the holdings
    startBalance,  \* history: the balance when StockMarketGame was mounted
    prevPortfolio  \* history: the holdings before the last step

habitVars == <<tasks, streak, streakStore, prevHabit, advanceDays>>

syncVars == <<inflight, pushed, dispatched, done, writeLog>>

pageVars == <<readHistory, historyStore, boot>>

toastVars == <<toasts, idRef, timers, ms, pushLog, prevToasts>>

dreamVars == <<scene, stats, dreamLog, sceneTimers, visitChoices>>

stockVars == <<stocks, portfolio, startBalance, prevPortfolio>>

gameVars == <<toastVars, dreamVars, stockVars>>

accountVars == <<user, now, firebaseUser, loadPc, remote, mountUser,
                 prev, hist, calls, dateHist, paid>>

vars == <<user, now, firebaseUser, loadPc, remote, mountUser,
          prev, op, hist, calls, dateHist, paid, budget, habitVars, syncVars,
          cache, pageVars, gameVars>>

----------------------------------------------------------------------------
(* Program constants *)

HoursPerDay == 24
DefaultBalance == 100000
LoginBonus == 1000
LoginPenalty == 2000
TxCap == 200
LoginDatesCap == 30
NullDate == -1
NullName == "null"

(* Bounds of the model *)

MaxOps == 4
MaxTransactOps == 5
MaxLoginOps == 6
MaxHabitOps == 7
MaxCacheOps == 3
MaxArticleOps == 4
MaxToastOps == 5
MaxStockOps == 5
MaxDreamOps == 6
StartDay == 40
StartHour == 22
StartNow == StartDay * HoursPerDay + StartHour

----------------------------------------------------------------------------
(* Utility helpers *)

Max(a, b) == IF a >= b THEN a ELSE b
Min(a, b) == IF a <= b THEN a ELSE b

\* round2 of the rational n/d rupee-hundredths: Math.round rounds half up.
round2(n, d) == (2 * n + d) \div (2 * d)

\* new Date().toISOString().slice(0, 10): the UTC day of the clock value.
todayStr(t) == t \div HoursPerDay

\* d.setDate(d.getDate() - 1) steps back one day on the LOCAL calendar, keeping
\* the local time of day; toISOString then gives the UTC day of that instant.
\* The instant is 24 hours back, or 24 - shift hours back when the local
\* clock was shifted by `shift` hours (daylight saving) in between.
yesterdayStr(t, shift) == (t - HoursPerDay + shift) \div HoursPerDay

\* arr.slice(-k)
sliceLast(s, k) == IF Len(s) <= k THEN s ELSE SubSeq(s, Len(s) - k + 1, Len(s))

Range(s) == { s[i] : i \in 1..Len(s) }

\* s without its k-th element
removeAt(s, k) == SubSeq(s, 1, k - 1) \o SubSeq(s, k + 1, Len(s))

\* mutant: investments[0] is taken instead of investments.find(...)
findIndex_first(invs, id, i) == IF Len(invs) = 0 THEN 0 ELSE 1

RECURSIVE findIndex(_, _, _)
\* index of the first investment with this id at or after i, 0 when none
findIndex(invs, id, i) ==
    IF i > Len(invs) THEN 0
    ELSE IF invs[i].id = id THEN i
    ELSE findIndex(invs, id, i + 1)

RECURSIVE filterOut(_, _)
\* investments.filter((i) => i.id !== id)
filterOut(invs, id) ==
    IF invs = <<>> THEN <<>>
    ELSE IF Head(invs).id = id THEN filterOut(Tail(invs), id)
    ELSE <<Head(invs)>> \o filterOut(Tail(invs), id)

----------------------------------------------------------------------------
(* Inputs *)

ArticleIds == {"a1", "a2"}
Articles == { [id |-> "a1", reward |-> 5000], [id |-> "a2", reward |-> 4000] }
Usernames == {"ann"}
DstShifts == {-1, 0, 1}
McqInputs ==
    { [amount |-> 5000,   source |-> "mcq",    label |-> "MCQ Correct"],
      [amount |-> -1000,  source |-> "mcq",    label |-> "MCQ Wrong"] }
TxInputs ==
    McqInputs \cup
    { [amount |-> -5000,  source |-> "system", label |-> "food"],
      [amount |-> 50000,  source |-> "system", label |-> "freelance"],
      [amount |-> -2000,  source |-> "system", label |-> "tea"] }
Positions ==
    { [id |-> 1, amount |-> 3333, symbol |-> "GOLD"],
      [id |-> 2, amount |-> 10000, symbol |-> "FD"] }
PositionIds == {1, 3}
Multipliers == { [num |-> 1, den |-> 2], [num |-> 2, den |-> 1] }

----------------------------------------------------------------------------
(* The UserAccount and its operations (the updaters given to setUser) *)

DefaultUser ==
    [ username     |-> NullName,
      balance      |-> DefaultBalance,
      lastLogin    |-> NullDate,
      streak       |-> 0,
      loginDates   |-> <<>>,
      readArticles |-> [a \in ArticleIds |-> FALSE],
      investments  |-> <<>>,
      transactions |-> <<>> ]

\* mutant: the clamp at zero is forgotten
newBalanceOf_noClamp(u, amount) == round2(u.balance + amount, 1)

newBalanceOf(u, amount) == round2(Max(0, u.balance + amount), 1)

\* mutant: the record keeps the change of the balance, not the requested amount
txOf_clampedAmount(u, amount, source, label, t) ==
    [ id           |-> t,
      ts           |-> t,
      amount       |-> newBalanceOf(u, amount) - u.balance,
      balanceAfter |-> newBalanceOf(u, amount),
      source       |-> source,
      label        |-> label ]

txOf(u, amount, source, label, t) ==
    [ id           |-> t,
      ts           |-> t,
      amount       |-> round2(amount, 1),
      balanceAfter |-> newBalanceOf(u, amount),
      source       |-> source,
      label        |-> label ]

\* mutant: slice(0, 200) instead of slice(-200): the newest record is dropped
appendTx_keepOldest(txs, tx) ==
    IF Len(txs) < TxCap THEN Append(txs, tx) ELSE txs

appendTx(txs, tx) == sliceLast(Append(txs, tx), TxCap)

\* mutant: the record is appended but the balance is not updated
transactUpdater_noBalance(u, amount, source, label, t) ==
    [ u EXCEPT !.transactions = appendTx(u.transactions, txOf(u, amount, source, label, t)) ]

transactUpdater(u, amount, source, label, t) ==
    [ u EXCEPT !.balance = newBalanceOf(u, amount),
               !.transactions = appendTx(u.transactions, txOf(u, amount, source, label, t)) ]

\* mutant: the same-day branch is missing
loginStreakOf_noSameDay(u, today, yesterday) ==
    IF u.lastLogin = yesterday THEN u.streak + 1 ELSE 1

loginStreakOf(u, today, yesterday) ==
    IF u.lastLogin = today THEN u.streak
    ELSE IF u.lastLogin = yesterday THEN u.streak + 1
    ELSE 1

loginBalanceOf(u, today, yesterday) ==
    IF u.lastLogin = today THEN u.balance
    ELSE IF u.lastLogin = yesterday THEN round2(u.balance + LoginBonus, 1)
    ELSE IF u.lastLogin # NullDate THEN Max(0, round2(u.balance - LoginPenalty, 1))
    ELSE u.balance

\* mutant: a plain array push instead of a Set
loginDatesOf_noSet(dates, today) == sliceLast(Append(dates, today), LoginDatesCap)

\* new Set(u.loginDates).add(today), Array.from(...).slice(-30)
loginDatesOf(dates, today) ==
    sliceLast(IF today \in Range(dates) THEN dates ELSE Append(dates, today),
              LoginDatesCap)

loginUpdater(u, username, today, yesterday) ==
    [ u EXCEPT !.username = username,
               !.balance = loginBalanceOf(u, today, yesterday),
               !.lastLogin = today,
               !.streak = loginStreakOf(u, today, yesterday),
               !.loginDates = loginDatesOf(u.loginDates, today) ]

\* mutant: the already-read guard is missing
markArticleReadUpdater_noGuard(u, id, reward) ==
    [ u EXCEPT !.readArticles = [u.readArticles EXCEPT ![id] = TRUE],
               !.balance = round2(u.balance + reward, 1) ]

markArticleReadUpdater(u, id, reward) ==
    IF u.readArticles[id] THEN u
    ELSE [ u EXCEPT !.readArticles = [u.readArticles EXCEPT ![id] = TRUE],
                    !.balance = round2(u.balance + reward, 1) ]

\* mutant: the position is put in front instead of appended
investUpdater_prepend(u, investment) ==
    [ u EXCEPT !.investments = <<investment>> \o u.investments ]

investUpdater(u, investment) ==
    [ u EXCEPT !.investments = Append(u.investments, investment) ]

returnedOf(inv, multiplier) == round2(inv.amount * multiplier.num, multiplier.den)

realizeInvestmentUpdater(u, id, multiplier) ==
    LET k == findIndex(u.investments, id, 1) IN
    IF k = 0 THEN u
    ELSE [ u EXCEPT !.balance = round2(u.balance + returnedOf(u.investments[k], multiplier), 1),
                    !.investments = filterOut(u.investments, id) ]

\* mutant: { ...snap.data(), ...prev }: the local value wins
mergeDoc_localWins(u, data) ==
    [ f \in DOMAIN u \cup DOMAIN data |-> IF f \in DOMAIN u THEN u[f] ELSE data[f] ]

\* setUser((prev) => ({ ...prev, ...snap.data() }))
mergeDoc(u, data) ==
    [ f \in DOMAIN u \cup DOMAIN data |-> IF f \in DOMAIN data THEN data[f] ELSE u[f] ]

----------------------------------------------------------------------------
(* The local cache: JSON.stringify / JSON.parse of the UserAccount *)

\* a value that is null in the account is the JSON null, any other a JSON value
jsonOf(v, null) ==
    IF v = null THEN [type |-> "null"] ELSE [type |-> "value", value |-> v]

valueOf(j, null) == IF j.type = "null" THEN null ELSE j.value

\* a transaction record: label is a string or null, the rest numbers and strings
jsonOfTx(tx) == [tx EXCEPT !.label = jsonOf(tx.label, NullName)]

parseTx(j) == [j EXCEPT !.label = valueOf(j.label, NullName)]

\* JSON.stringify(state): an object with one member per own property
stringify(u) ==
    [ username     |-> jsonOf(u.username, NullName),
      balance      |-> jsonOf(u.balance, NullDate),
      lastLogin    |-> jsonOf(u.lastLogin, NullDate),
      streak       |-> jsonOf(u.streak, NullDate),
      loginDates   |-> [type |-> "array", items |-> u.loginDates],
      readArticles |-> [type |-> "object", members |-> u.readArticles],
      investments  |-> [type |-> "array", items |-> u.investments],
      transactions |-> [type |-> "array",
                        items |-> [i \in 1..Len(u.transactions) |->
                                      jsonOfTx(u.transactions[i])]] ]

\* JSON.parse(raw) of an object written by stringify
parse(j) ==
    [ username     |-> valueOf(j.username, NullName),
      balance      |-> valueOf(j.balance, NullDate),
      lastLogin    |-> valueOf(j.lastLogin, NullDate),
      streak       |-> valueOf(j.streak, NullDate),
      loginDates   |-> j.loginDates.items,
      readArticles |-> j.readArticles.members,
      investments  |-> j.investments.items,
      transactions |-> [i \in 1..Len(j.transactions.items) |->
                           parseTx(j.transactions.items[i])] ]

\* a localStorage entry: absent, a text that is the JSON of a value, or a text
\* that is no JSON at all
NoEntry == [kind |-> "absent", data |-> stringify(DefaultUser)]
Entry(j) == [kind |-> "json", data |-> j]
BadEntry == [kind |-> "malformed", data |-> stringify(DefaultUser)]

\* mutant: the effect does not write
cacheAfter_keep(entry, u) == entry

\* useEffect(() => localStorage.setItem(key, JSON.stringify(state)), [key, state])
cacheAfter(entry, u) == Entry(stringify(u))

\* useState(() => { try { raw ? JSON.parse(raw) : initial } catch { initial } })
useLocalStateInit(entry, initial) ==
    IF entry.kind = "json" THEN parse(entry.data) ELSE initial

----------------------------------------------------------------------------
(* History bookkeeping *)

One == [num |-> 1, den |-> 1]

Op(name, amount, article, posId, mult, shift) ==
    [name |-> name, amount |-> amount, article |-> article, posId |-> posId,
     mult |-> mult, shift |-> shift]

NoDoc == [exists |-> FALSE, data |-> DefaultUser]
Doc(d) == [exists |-> TRUE, data |-> d]

\* push(text, { style }): the text's fixed part, the amount it shows, the style
Toast(text, amount, style) == [text |-> text, amount |-> amount, style |-> style]

\* push(`${amount > 0 ? "+" : ""}${fmt(amount)} (${label || source})`, ...)
transactToast(inp) ==
    Toast(IF inp.label # NullName THEN inp.label ELSE inp.source, inp.amount,
          IF inp.amount >= 0 THEN "success" ELSE "danger")

\* a remote write: updateDoc(ref, data) or setDoc(ref, data), and who sent it
Write(kind, data, from) == [kind |-> kind, data |-> data, from |-> from]
NoWrite == [w |-> Write("none", DefaultUser, "none"), ok |-> TRUE]

\* useEffect(() => { updateFirestore() }, [user, firebaseUser]): the writes the
\* effect dispatches after a render in which user or firebaseUser changed
syncEffect(fb, u, changed) ==
    IF fb /\ changed THEN <<Write("updateDoc", u, "sync")>> ELSE <<>>

\* update(id, document) fails if the document is absent
writeFails(doc, w) == w.kind = "updateDoc" /\ ~doc.exists

\* the remote document once the write w has completed against doc
remoteAfter(doc, w) ==
    IF w.kind = "setDoc" THEN Doc(w.data)
    ELSE IF doc.exists THEN Doc(mergeDoc(doc.data, w.data))
    ELSE doc

\* mutant: a failed update is dropped
fallbackOf_none(doc, w) == <<>>

\* updateDoc(ref, user).catch(async () => setDoc(ref, user))
fallbackOf(doc, w) ==
    IF writeFails(doc, w) THEN <<Write("setDoc", w.data, "fallback")>> ELSE <<>>

\* every step spends one unit of the run's budget and records the state it left
Step ==
    /\ budget > 0
    /\ budget' = budget - 1
    /\ prev' = user
    /\ UNCHANGED <<habitVars, pageVars, gameVars>>

\* the notifications a handler pushed, and the effect on [user, firebaseUser]
\* of the render that follows it
Effects(changed, pushes) ==
    /\ pushed' = pushes
    /\ dispatched' = syncEffect(firebaseUser', user', changed)
    /\ inflight' = inflight \o dispatched'
    /\ writeLog' = writeLog \o dispatched'
    /\ done' = NoWrite
    /\ cache' = cacheAfter(cache, user')

----------------------------------------------------------------------------
(* Actions: one per operation of UserProvider *)

\* The clock advances by one of the given numbers of hours.
Tick(hours) ==
    /\ Step
    /\ \E d \in hours : now' = now + d
    /\ op' = Op("tick", 0, "", 0, One, 0)
    /\ UNCHANGED <<user, firebaseUser, loadPc, remote, mountUser,
                   hist, calls, dateHist, paid>>
    /\ Effects(FALSE, <<>>)

transact(inputs) ==
    /\ Step
    /\ \E inp \in inputs :
          /\ user' = transactUpdater(user, inp.amount, inp.source, inp.label, now)
          /\ hist' = Append(hist, txOf(user, inp.amount, inp.source, inp.label, now))
          /\ calls' = Append(calls, inp.amount)
          /\ op' = Op("transact", inp.amount, "", 0, One, 0)
          /\ UNCHANGED <<now, firebaseUser, loadPc, remote, mountUser, dateHist, paid>>
          /\ Effects(TRUE, <<transactToast(inp)>>)

login(shifts) ==
    /\ Step
    /\ \E username \in Usernames, shift \in shifts :
          /\ user' = loginUpdater(user, username, todayStr(now), yesterdayStr(now, shift))
          /\ op' = Op("login", 0, "", 0, One, shift)
    /\ dateHist' = IF todayStr(now) \in Range(dateHist) THEN dateHist
                   ELSE Append(dateHist, todayStr(now))
    /\ UNCHANGED <<now, firebaseUser, loadPc, remote, mountUser, hist, calls, paid>>
    /\ Effects(TRUE, <<Toast("Logged in successfully", 0, "success")>>)

\* the updater returns the same object for an article already read: no render
markArticleRead ==
    /\ Step
    /\ \E a \in Articles :
          /\ user' = markArticleReadUpdater(user, a.id, a.reward)
          /\ op' = Op("markArticleRead", a.reward, a.id, 0, One, 0)
          /\ paid' = IF user'.balance # user.balance
                      THEN [paid EXCEPT ![a.id] = @ + 1] ELSE paid
          /\ UNCHANGED <<now, firebaseUser, loadPc, remote, mountUser, hist, calls, dateHist>>
          /\ Effects(user' # user, <<Toast("Read article reward", a.reward, "success")>>)

invest ==
    /\ Step
    /\ \E p \in Positions :
          /\ user' = investUpdater(user, p)
          /\ op' = Op("invest", p.amount, "", p.id, One, 0)
    /\ UNCHANGED <<now, firebaseUser, loadPc, remote, mountUser, hist, calls, dateHist, paid>>
    /\ Effects(TRUE, <<>>)

\* the updater pushes its notification itself, and only for a position it found
realizeInvestment ==
    /\ Step
    /\ \E id \in PositionIds, m \in Multipliers :
          LET k == findIndex(user.investments, id, 1) IN
          /\ user' = realizeInvestmentUpdater(user, id, m)
          /\ op' = Op("realizeInvestment", 0, "", id, m, 0)
          /\ UNCHANGED <<now, firebaseUser, loadPc, remote, mountUser,
                         hist, calls, dateHist, paid>>
          /\ Effects(k # 0,
                     IF k = 0 THEN <<>>
                     ELSE <<Toast("Investment return",
                                  returnedOf(user.investments[k], m), "success")>>)

\* onAuthStateChanged(auth, async (u) => { setFirebaseUser(u); ... getDoc(ref)
authStateChanged ==
    /\ Step
    /\ loadPc = "idle"
    /\ firebaseUser' = TRUE
    /\ loadPc' = "getDoc"
    /\ op' = Op("authStateChanged", 0, "", 0, One, 0)
    /\ UNCHANGED <<user, now, remote, mountUser, hist, calls, dateHist, paid>>
    /\ Effects(TRUE, <<>>)

\* ... const snap = await getDoc(ref); if (snap.exists()) setUser(merge); push
loadMerge ==
    /\ Step
    /\ loadPc = "getDoc"
    /\ remote.exists
    /\ user' = mergeDoc(user, remote.data)
    /\ loadPc' = "done"
    /\ op' = Op("loadMerge", 0, "", 0, One, 0)
    /\ UNCHANGED <<now, firebaseUser, remote, mountUser, hist, calls, dateHist, paid>>
    /\ Effects(TRUE, <<Toast("Progress loaded", 0, "success")>>)

\* ... else await setDoc(ref, user), `user` being the closure's
loadCreate ==
    /\ Step
    /\ loadPc = "getDoc"
    /\ ~remote.exists
    /\ loadPc' = "setDoc"
    /\ op' = Op("loadCreate", 0, "", 0, One, 0)
    /\ pushed' = <<>>
    /\ dispatched' = <<Write("setDoc", mountUser, "load")>>
    /\ inflight' = inflight \o dispatched'
    /\ writeLog' = writeLog \o dispatched'
    /\ done' = NoWrite
    /\ UNCHANGED <<user, now, firebaseUser, remote, mountUser, hist, calls, dateHist, paid,
                   cache>>

\* One pending write completes, in any order.  A failed updateDoc runs its
\* catch handler; the setDoc of the load resumes the callback at its push.
writeDone ==
    /\ Step
    /\ \E i \in 1..Len(inflight) :
          LET w == inflight[i] IN
          /\ remote' = remoteAfter(remote, w)
          /\ done' = [w |-> w, ok |-> ~writeFails(remote, w)]
          /\ dispatched' = fallbackOf(remote, w)
          /\ inflight' = removeAt(inflight, i) \o dispatched'
          /\ writeLog' = writeLog \o dispatched'
          /\ IF w.from = "load"
             THEN /\ pushed' = <<Toast("Welcome to FinTwitch!", 0, "success")>>
                  /\ loadPc' = "done"
             ELSE /\ pushed' = <<>>
                  /\ UNCHANGED loadPc
    /\ op' = Op("writeDone", 0, "", 0, One, 0)
    /\ UNCHANGED <<user, now, firebaseUser, mountUser, hist, calls, dateHist, paid, cache>>

----------------------------------------------------------------------------
(* HabitTracker *)

TaskIds == {1, 2, 3}

NoTasksDone == [t \in TaskIds |-> FALSE]

ZeroStreak == [current |-> 0, best |-> 0, lastDate |-> NullDate, history |-> <<>>]

\* a localStorage item: absent, a text that is the JSON of v, or a text that
\* is no JSON at all
NoItem == [exists |-> FALSE, valid |-> TRUE, data |-> ZeroStreak]
Item(v) == [exists |-> TRUE, valid |-> TRUE, data |-> v]
BadItem == [exists |-> TRUE, valid |-> FALSE, data |-> ZeroStreak]

\* tasks.every((t) => t.done)
allDone(ts) == \A t \in TaskIds : ts[t]

\* mutant: the test for yesterday is missing, the streak always grows
newCurrentOf_alwaysGrow(st, yesterday) == st.current + 1

newCurrentOf(st, yesterday) ==
    IF st.lastDate = yesterday THEN st.current + 1 ELSE 1

\* mutant: the date of the last completion is not compared with today
streakFires_noDateTest(ts, st, today) == allDone(ts)

\* the condition of the streak effect
streakFires(ts, st, today) == allDone(ts) /\ st.lastDate # today

\* the `updated` streak of the streak effect
advancedStreak(st, today, yesterday) ==
    [ current  |-> newCurrentOf(st, yesterday),
      best     |-> Max(newCurrentOf(st, yesterday), st.best),
      lastDate |-> today,
      history  |-> Append(st.history, today) ]

\* mutant: the tasks are left as they are
resetTasks_keep(ts) == ts

\* setTasks((t) => t.map((task) => ({ ...task, done: false })))
resetTasks(ts) == [t \in TaskIds |-> FALSE]

\* every habit step spends one unit of budget and leaves the account alone
HabitStep ==
    /\ budget > 0
    /\ budget' = budget - 1
    /\ prevHabit' = [tasks |-> tasks, streak |-> streak]
    /\ UNCHANGED <<user, now, firebaseUser, loadPc, remote, mountUser,
                   prev, hist, calls, dateHist, paid, syncVars, cache, pageVars,
                   gameVars>>

\* toggleTask(id), the render it causes and the effect on [tasks] of that render
toggleTask ==
    /\ HabitStep
    /\ \E id \in TaskIds, shift \in DstShifts :
          LET updated == [tasks EXCEPT ![id] = ~tasks[id]]
              today == todayStr(now)
          IN  /\ tasks' = updated
              /\ op' = Op("toggleTask", 0, "", id, One, shift)
              /\ IF streakFires(updated, streak, today)
                 THEN /\ streak' = advancedStreak(streak, today, yesterdayStr(now, shift))
                      /\ streakStore' = Item(streak')
                      /\ advanceDays' = Append(advanceDays, today)
                 ELSE UNCHANGED <<streak, streakStore, advanceDays>>

\* handleReset, the render it causes and the effect on [tasks] of that render
handleReset ==
    /\ HabitStep
    /\ \E confirmed \in BOOLEAN :
          IF confirmed
          THEN /\ op' = Op("handleReset", 0, "", 0, One, 0)
               /\ tasks' = resetTasks(tasks)
               /\ IF streakFires(resetTasks(tasks), ZeroStreak, todayStr(now))
                  THEN /\ streak' = advancedStreak(ZeroStreak, todayStr(now),
                                                   yesterdayStr(now, 0))
                       /\ streakStore' = Item(streak')
                       /\ advanceDays' = <<todayStr(now)>>
                  ELSE /\ streak' = ZeroStreak
                       /\ streakStore' = NoItem
                       /\ advanceDays' = <<>>
          ELSE /\ op' = Op("handleResetCancelled", 0, "", 0, One, 0)
               /\ UNCHANGED <<tasks, streak, streakStore, advanceDays>>

\* The page is reloaded: the state is rebuilt from localStorage, the callbacks
\* and the pending requests of the old page are gone, the mount effects run.
reload ==
    /\ budget > 0
    /\ budget' = budget - 1
    /\ prev' = user
    /\ user' = useLocalStateInit(cache, DefaultUser)
    /\ mountUser' = user'
    /\ cache' = cacheAfter(cache, user')
    /\ firebaseUser' = FALSE
    /\ loadPc' = "idle"
    /\ inflight' = <<>>
    /\ pushed' = <<>>
    /\ dispatched' = <<>>
    /\ done' = NoWrite
    /\ op' = Op("reload", Len(inflight), "", 0, One, 0)
    /\ tasks' = NoTasksDone
    /\ streak' = IF streakStore.exists THEN streakStore.data ELSE ZeroStreak
    /\ readHistory' = historyStore.data
    /\ UNCHANGED <<now, remote, hist, calls, dateHist, paid, writeLog,
                   streakStore, prevHabit, advanceDays, historyStore, boot, gameVars>>

\* the streak an earlier visit left in localStorage: completions on each of the
\* n days up to and including the day `last`
RECURSIVE streakAfter(_, _)
streakAfter(n, last) ==
    IF n = 0 THEN ZeroStreak
    ELSE advancedStreak(streakAfter(n - 1, last - 1), last, last - 1)

StartStreaks ==
    { NoItem, Item(streakAfter(1, StartDay - 1)), Item(streakAfter(2, StartDay - 1)),
      Item(streakAfter(1, StartDay - 2)) }

----------------------------------------------------------------------------
(* Initial states: states an earlier session leaves in the local cache *)

\* the account after buying a stock at 995.00 from the default balance
LowUser == transactUpdater(DefaultUser, -99500, "stock", "Bought TCS", StartNow - 1)

\* the account after article a1 was read
ReadUser == markArticleReadUpdater(DefaultUser, "a1", 5000)

\* the account after n <= TxCap correct MCQ answers at the hours 1..n: the i-th
\* call finds the balance DefaultBalance + (i - 1) * 5000 and appends its record
txPrefill(n) ==
    [ DefaultUser EXCEPT
        !.balance = DefaultBalance + n * 5000,
        !.transactions =
            [ i \in 1..n |->
                txOf([DefaultUser EXCEPT !.balance = DefaultBalance + (i - 1) * 5000],
                     5000, "mcq", "MCQ Correct", i) ] ]

RECURSIVE loginRun(_, _)
\* the account after logins on the first k of the n days before StartDay
loginRun(n, k) ==
    IF k = 0 THEN DefaultUser
    ELSE loginUpdater(loginRun(n, k - 1), "ann", StartDay - n + k - 1, StartDay - n + k - 2)

\* the account after logins on each of the n days before StartDay
loginPrefill(n) == loginRun(n, n)

RECURSIVE loginOver(_, _, _)
\* the account u after logins on the first k of the n days before StartDay
loginOver(u, n, k) ==
    IF k = 0 THEN u
    ELSE loginUpdater(loginOver(u, n, k - 1), "ann", StartDay - n + k - 1, StartDay - n + k - 2)

\* an account whose log and login dates are both at their caps
FullUser == loginOver(txPrefill(TxCap), LoginDatesCap, LoginDatesCap)

\* JSON.parse(localStorage.getItem("fintwitch_streak")) || { current: 0, ... }
streakInitial(item) == IF item.exists THEN item.data ELSE ZeroStreak

InitHabitWith(item) ==
    /\ tasks = NoTasksDone
    /\ streak = streakInitial(item)
    /\ streakStore = item
    /\ prevHabit = [tasks |-> NoTasksDone, streak |-> streakInitial(item)]
    /\ advanceDays = <<>>

InitSession(u, doc, n) ==
    /\ user = u
    /\ now = StartNow
    /\ firebaseUser = FALSE
    /\ loadPc = "idle"
    /\ remote = doc
    /\ mountUser = u
    /\ prev = u
    /\ op = Op("init", 0, "", 0, One, 0)
    /\ hist = u.transactions
    /\ calls = <<>>
    /\ dateHist = u.loginDates
    /\ paid = [a \in ArticleIds |-> 0]
    /\ budget = n
    /\ inflight = <<>>
    /\ pushed = <<>>
    /\ dispatched = <<>>
    /\ done = NoWrite
    /\ writeLog = <<>>

\* the reading history item: absent, the JSON of a list, or no JSON at all
NoHistory == [exists |-> FALSE, valid |-> TRUE, data |-> <<>>]
HistoryItem(h) == [exists |-> TRUE, valid |-> TRUE, data |-> h]
BadHistory == [exists |-> TRUE, valid |-> FALSE, data |-> <<>>]

Buckets == {"account", "streak", "history"}
Booted(status, found) == [status |-> status, found |-> found]

\* every component is mounted, ArticlesPage with no history yet
InitPages ==
    /\ readHistory = <<>>
    /\ historyStore = NoHistory
    /\ boot = [b \in Buckets |-> Booted("ok", "none")]

InitAccount(u, doc, n) ==
    /\ InitSession(u, doc, n)
    /\ cache = cacheAfter(NoEntry, u)
    /\ InitPages

\* DreamLifePlanner: { happiness: 5, consistency: 5, wisdom: 5 }
StartStats == [happiness |-> 5, consistency |-> 5, wisdom |-> 5]

\* StockMarketGame: two of the listed stocks
StartStocks == [TATASTEEL |-> 13000, JSWSTEEL |-> 80000]

\* the games and the notifications as their components mount, DreamLifePlanner
\* at the scene sc of its saved progress
InitGames(sc) ==
    /\ toasts = <<>>
    /\ idRef = 1
    /\ timers = {}
    /\ ms = 0
    /\ pushLog = <<>>
    /\ prevToasts = <<>>
    /\ scene = sc
    /\ stats = StartStats
    /\ dreamLog = <<>>
    /\ sceneTimers = <<>>
    /\ visitChoices = 0
    /\ stocks = StartStocks
    /\ portfolio = <<>>
    /\ startBalance = user.balance
    /\ prevPortfolio = <<>>

InitWith(u, doc, n) ==
    /\ InitAccount(u, doc, n)
    /\ InitHabitWith(NoItem)
    /\ InitGames(1)

\* what getItem finds in an item
foundIn(item) ==
    IF ~item.exists THEN "absent" ELSE IF item.valid THEN "json" ELSE "malformed"

\* UserProvider mounts: useLocalState("fintwitch_user", defaults) and its effect
mountUserProvider ==
    /\ boot["account"].status = "pending"
    /\ user' = useLocalStateInit(cache, DefaultUser)
    /\ mountUser' = user'
    /\ prev' = user'
    /\ cache' = cacheAfter(cache, user')
    /\ boot' = [boot EXCEPT !["account"] = Booted("ok", cache.kind)]
    /\ op' = Op("mountUserProvider", 0, "", 0, One, 0)
    /\ UNCHANGED <<now, firebaseUser, loadPc, remote, hist, calls, dateHist, paid,
                   budget, habitVars, syncVars, readHistory, historyStore, gameVars>>

\* HabitTracker mounts: JSON.parse(localStorage.getItem("fintwitch_streak")) ||
\* defaults, outside any try: a text that is no JSON throws during the render
mountHabitTracker ==
    /\ boot["streak"].status = "pending"
    /\ IF streakStore.exists /\ ~streakStore.valid
       THEN /\ boot' = [boot EXCEPT !["streak"] = Booted("failed", foundIn(streakStore))]
            /\ UNCHANGED streak
       ELSE /\ boot' = [boot EXCEPT !["streak"] = Booted("ok", foundIn(streakStore))]
            /\ streak' = streakInitial(streakStore)
    /\ tasks' = NoTasksDone
    /\ prevHabit' = [tasks |-> tasks, streak |-> streak]
    /\ op' = Op("mountHabitTracker", 0, "", 0, One, 0)
    /\ UNCHANGED <<user, now, firebaseUser, loadPc, remote, mountUser, prev, hist, calls,
                   dateHist, paid, budget, syncVars, cache, streakStore, advanceDays,
                   readHistory, historyStore, gameVars>>

\* ArticlesPage mounts: saved ? JSON.parse(saved) : [], outside any try
mountArticlesPage ==
    /\ boot["history"].status = "pending"
    /\ IF historyStore.exists /\ ~historyStore.valid
       THEN /\ boot' = [boot EXCEPT !["history"] = Booted("failed", foundIn(historyStore))]
            /\ UNCHANGED readHistory
       ELSE /\ boot' = [boot EXCEPT !["history"] = Booted("ok", foundIn(historyStore))]
            /\ readHistory' = historyStore.data
    /\ op' = Op("mountArticlesPage", 0, "", 0, One, 0)
    /\ UNCHANGED <<user, now, firebaseUser, loadPc, remote, mountUser, prev, hist, calls,
                   dateHist, paid, budget, habitVars, syncVars, cache, historyStore,
                   gameVars>>

\* the record handleQuizComplete appends for a passed quiz
newRecordOf(a, t) == [id |-> a.id, reward |-> a.reward, date |-> t]

\* the least score that passes the quiz of an article
PassScore == 2
Scores == 0..3

\* handleQuizComplete(score, article): op.posId holds the score
handleQuizComplete ==
    /\ budget > 0
    /\ budget' = budget - 1
    /\ prev' = user
    /\ \E a \in Articles, score \in Scores :
          /\ op' = Op("handleQuizComplete", a.reward, a.id, score, One, 0)
          /\ IF score >= PassScore
             THEN /\ user' = markArticleReadUpdater(user, a.id, a.reward)
                  /\ paid' = IF user'.balance # user.balance
                              THEN [paid EXCEPT ![a.id] = @ + 1] ELSE paid
                  /\ readHistory' = Append(readHistory, newRecordOf(a, now))
                  /\ historyStore' = HistoryItem(readHistory')
                  /\ UNCHANGED firebaseUser
                  /\ Effects(user' # user,
                             <<Toast("Read article reward", a.reward, "success"),
                               Toast("You scored and earned", a.reward, "success")>>)
             ELSE /\ UNCHANGED <<user, firebaseUser, paid, readHistory, historyStore>>
                  /\ Effects(FALSE, <<Toast("Try again next time", 0, "danger")>>)
    /\ UNCHANGED <<now, loadPc, remote, mountUser, hist, calls, dateHist, habitVars, boot,
                   gameVars>>

----------------------------------------------------------------------------
(* ToastsProvider *)

DefaultTtl == 3000

\* opts.ttl || 3000: an option that is absent or 0 gives the default
ttlOf(opt) == IF opt = 0 THEN DefaultTtl ELSE opt

\* opts.style || "default"
styleOf(opt) == IF opt = "" THEN "default" ELSE opt

\* the calls of push: "Choose one!" with ttl 1500, the others without a ttl
PushInputs ==
    { [text |-> "Choose one!", ttl |-> 1500, style |-> ""],
      [text |-> "Decision made!", ttl |-> 0, style |-> ""],
      [text |-> "Logged in successfully", ttl |-> 0, style |-> "success"] }

\* mutant: the oldest notification is removed, t.slice(1)
removeToast_oldest(ts, id) == Tail(ts)

\* setToasts((t) => t.filter((x) => x.id !== id))
removeToast(ts, id) == SelectSeq(ts, LAMBDA x : x.id # id)

\* push(text, opts): the notification is appended and its own timer is set
push ==
    /\ budget > 0
    /\ budget' = budget - 1
    /\ \E inp \in PushInputs :
          /\ toasts' = Append(toasts, [id |-> idRef, text |-> inp.text,
                                       ttl |-> ttlOf(inp.ttl), style |-> styleOf(inp.style)])
          /\ timers' = timers \cup {[id |-> idRef, due |-> ms + ttlOf(inp.ttl)]}
          /\ pushLog' = Append(pushLog, [id |-> idRef, at |-> ms, ttl |-> ttlOf(inp.ttl)])
          /\ op' = Op("push", ttlOf(inp.ttl), inp.text, idRef, One, 0)
    /\ idRef' = idRef + 1
    /\ prevToasts' = toasts
    /\ UNCHANGED <<ms, accountVars, habitVars, syncVars, cache, pageVars, dreamVars, stockVars>>

\* a timer set by push fires, at its due time or later: op.posId holds its id
toastTimeout ==
    /\ \E tm \in timers :
          /\ tm.due <= ms
          /\ toasts' = removeToast(toasts, tm.id)
          /\ timers' = timers \ {tm}
          /\ op' = Op("toastTimeout", 0, "", tm.id, One, 0)
    /\ prevToasts' = toasts
    /\ UNCHANGED <<idRef, ms, pushLog, budget, accountVars, habitVars, syncVars, cache,
                   pageVars, dreamVars, stockVars>>

\* time passes
Elapse(steps) ==
    /\ budget > 0
    /\ budget' = budget - 1
    /\ \E d \in steps : ms' = ms + d
    /\ op' = Op("elapse", 0, "", 0, One, 0)
    /\ prevToasts' = toasts
    /\ UNCHANGED <<toasts, idRef, timers, pushLog, accountVars, habitVars, syncVars, cache,
                   pageVars, dreamVars, stockVars>>

----------------------------------------------------------------------------
(* StockMarketGame *)

PriceFloor == 5000

\* the changes of a price in one update, in thousandths: within +-2%
PriceChanges == {-20, 20}

\* Math.max(50, (s.price + change).toFixed(2))
newPriceOf(price, change) == Max(PriceFloor, round2(price * (1000 + change), 1000))

\* { ...stock, buyPrice: stock.price }
holdingOf(sym, price) == [symbol |-> sym, price |-> price, buyPrice |-> price]

\* mutant: the sale credits the current price of the stock
sellPriceOf_current(holding, prices) == prices[holding.symbol]

\* sellStock: transact(stock.price, ...) with stock = portfolio[index]
sellPriceOf(holding, prices) == holding.price

\* the setInterval callback: every price moves
priceTick ==
    /\ budget > 0
    /\ budget' = budget - 1
    /\ prev' = user
    /\ \E ch \in [DOMAIN stocks -> PriceChanges] :
          stocks' = [sym \in DOMAIN stocks |-> newPriceOf(stocks[sym], ch[sym])]
    /\ op' = Op("priceTick", 0, "", 0, One, 0)
    /\ prevPortfolio' = portfolio
    /\ UNCHANGED <<user, now, firebaseUser, loadPc, remote, mountUser, hist, calls,
                   dateHist, paid, portfolio, startBalance,
                   habitVars, pageVars, toastVars, dreamVars>>
    /\ Effects(FALSE, <<>>)

\* buyStock(stock): rejected with an alert when the balance is below the price
buyStock ==
    /\ budget > 0
    /\ budget' = budget - 1
    /\ prev' = user
    /\ prevPortfolio' = portfolio
    /\ \E sym \in DOMAIN stocks :
          LET inp == [amount |-> -stocks[sym], source |-> "stock", label |-> "Bought " \o sym]
          IN  IF user.balance < stocks[sym]
              THEN /\ op' = Op("buyRejected", inp.amount, sym, 0, One, 0)
                   /\ UNCHANGED <<user, hist, calls, portfolio, firebaseUser>>
                   /\ Effects(FALSE, <<>>)
              ELSE /\ op' = Op("buyStock", inp.amount, sym, 0, One, 0)
                   /\ user' = transactUpdater(user, inp.amount, inp.source, inp.label, now)
                   /\ hist' = Append(hist, txOf(user, inp.amount, inp.source, inp.label, now))
                   /\ calls' = Append(calls, inp.amount)
                   /\ portfolio' = Append(portfolio, holdingOf(sym, stocks[sym]))
                   /\ UNCHANGED firebaseUser
                   /\ Effects(TRUE, <<transactToast(inp)>>)
    /\ UNCHANGED <<now, loadPc, remote, mountUser, dateHist, paid, stocks, startBalance,
                   habitVars, pageVars, toastVars, dreamVars>>

\* sellStock(index): op.posId holds the index
sellStock ==
    /\ budget > 0
    /\ budget' = budget - 1
    /\ prev' = user
    /\ prevPortfolio' = portfolio
    /\ \E index \in 1..Len(portfolio) :
          LET stock == portfolio[index]
              inp == [amount |-> sellPriceOf(stock, stocks), source |-> "stock",
                      label |-> "Sold " \o stock.symbol]
          IN  /\ op' = Op("sellStock", inp.amount, stock.symbol, index, One, 0)
              /\ user' = transactUpdater(user, inp.amount, inp.source, inp.label, now)
              /\ hist' = Append(hist, txOf(user, inp.amount, inp.source, inp.label, now))
              /\ calls' = Append(calls, inp.amount)
              /\ portfolio' = removeAt(portfolio, index)
              /\ UNCHANGED firebaseUser
              /\ Effects(TRUE, <<transactToast(inp)>>)
    /\ UNCHANGED <<now, loadPc, remote, mountUser, dateHist, paid, stocks, startBalance,
                   habitVars, pageVars, toastVars, dreamVars>>

----------------------------------------------------------------------------
(* DreamLifePlanner *)

\* a choice of a scene; a field the source leaves out is 0 or ""
Choice(label, cost, income, happiness, consistency, wisdom, feedback, next) ==
    [label |-> label, cost |-> cost, income |-> income, happiness |-> happiness,
     consistency |-> consistency, wisdom |-> wisdom, feedback |-> feedback, next |-> next]

\* const scenes = { 1: ..., 4: ... }: scene 4 is the summary, without choices
Scenes ==
    [ n \in 1..4 |->
        CASE n = 1 ->
               << Choice("Buy a good breakfast", 5000, 0, 2, 0, 0, "Yum! You feel energized.", 0),
                  Choice("Skip breakfast, save money", 0, 0, -2, 0, 0, "You feel hungry", 0),
                  Choice("Grab tea with friends", 2000, 0, 1, 1, 0, "Tea + friends = happiness", 0) >>
          [] n = 2 ->
               << Choice("Buy tickets", 20000, 0, 2, 1, 0, "You enjoyed the fest!", 0),
                  Choice("Volunteer for free", 0, 0, 0, 2, 1, "You learned new skills", 0),
                  Choice("Skip the event", 0, 0, -1, 0, 0, "You missed some chances", 0) >>
          [] n = 3 ->
               << Choice("Accept the project", 0, 50000, 0, -1, 2, "You earned 500!", 4),
                  Choice("Reject it and study", 0, 0, 0, 0, 3, "You improved your skills", 4),
                  Choice("Ignore the message", 0, 0, 0, 0, 0, "You did nothing today", 4) >>
          [] OTHER -> << >> ]

\* scenes[scene]: undefined for an index that is no key of scenes
hasSceneData(sc) == sc \in DOMAIN Scenes

\* the choice buttons rendered for the scene
choicesOf(sc) == IF hasSceneData(sc) THEN Scenes[sc] ELSE << >>

SceneDelay == 1000

\* setStats((prev) => ({ happiness: Math.max(0, prev.happiness + ...), ... }))
statsAfter(st, choice) ==
    [ happiness |-> Max(0, st.happiness + choice.happiness),
      consistency |-> Max(0, st.consistency + choice.consistency),
      wisdom |-> Max(0, st.wisdom + choice.wisdom) ]

\* nextScene = (next = null) => setScene((s) => next || s + 1)
nextSceneOf(s, next) == IF next # 0 THEN next ELSE s + 1

\* choice.feedback || "Decision made!"
feedbackOf(choice) == IF choice.feedback = "" THEN "Decision made!" ELSE choice.feedback

\* the amount handleChoice passes to transact, 0 when it makes no call
amountOf(choice) == IF choice.cost # 0 THEN -choice.cost ELSE choice.income

\* handleChoice(choice), a click on one of the buttons of the scene on display:
\* op.posId holds the scene
handleChoice ==
    /\ budget > 0
    /\ budget' = budget - 1
    /\ prev' = user
    /\ \E idx \in 1..Len(choicesOf(scene)) :
          LET choice == choicesOf(scene)[idx]
              inp == [amount |-> amountOf(choice), source |-> "system", label |-> choice.label]
          IN  IF choice.cost # 0 /\ user.balance < choice.cost
              THEN /\ op' = Op("choiceRejected", inp.amount, choice.label, scene, One, 0)
                   /\ UNCHANGED <<user, hist, calls, firebaseUser, stats, dreamLog,
                                  sceneTimers, visitChoices>>
                   /\ Effects(FALSE, <<Toast("Not enough balance!", 0, "danger")>>)
              ELSE /\ op' = Op("handleChoice", inp.amount, choice.label, scene, One, 0)
                   /\ IF inp.amount # 0
                      THEN /\ user' = transactUpdater(user, inp.amount, inp.source,
                                                      inp.label, now)
                           /\ hist' = Append(hist, txOf(user, inp.amount, inp.source,
                                                        inp.label, now))
                           /\ calls' = Append(calls, inp.amount)
                           /\ UNCHANGED firebaseUser
                           /\ Effects(TRUE, <<transactToast(inp),
                                              Toast(feedbackOf(choice), 0, "default")>>)
                      ELSE /\ UNCHANGED <<user, hist, calls, firebaseUser>>
                           /\ Effects(FALSE, <<Toast(feedbackOf(choice), 0, "default")>>)
                   /\ stats' = statsAfter(stats, choice)
                   /\ dreamLog' = Append(dreamLog, choice.label)
                   /\ sceneTimers' = Append(sceneTimers,
                                            [next |-> choice.next, due |-> ms + SceneDelay])
                   /\ visitChoices' = visitChoices + 1
    /\ UNCHANGED <<now, loadPc, remote, mountUser, dateHist, paid, scene,
                   habitVars, pageVars, toastVars, stockVars>>

\* the callback of setTimeout(() => nextScene(choice.next), 1000): the timers
\* have the same delay, so they run in the order they were set
sceneTimeout ==
    /\ sceneTimers # << >>
    /\ Head(sceneTimers).due <= ms
    /\ scene' = nextSceneOf(scene, Head(sceneTimers).next)
    /\ sceneTimers' = Tail(sceneTimers)
    /\ visitChoices' = IF scene' # scene THEN 0 ELSE visitChoices
    /\ op' = Op("sceneTimeout", 0, "", scene', One, 0)
    /\ UNCHANGED <<stats, dreamLog, budget, accountVars, habitVars, syncVars, cache,
                   pageVars, toastVars, stockVars>>

\* time passes, up to the next moment a scene timer is due
sceneWait(steps) ==
    /\ budget > 0
    /\ budget' = budget - 1
    /\ \E d \in steps :
          /\ ms' = ms + d
          /\ \A i \in 1..Len(sceneTimers) : ms' <= sceneTimers[i].due
    /\ op' = Op("sceneWait", 0, "", scene, One, 0)
    /\ prevToasts' = toasts
    /\ UNCHANGED <<toasts, idRef, timers, pushLog, accountVars, habitVars, syncVars, cache,
                   pageVars, dreamVars, stockVars>>

\* the entries a browser can hold when the page is opened
RawCaches == {NoEntry, BadEntry, Entry(stringify(LowUser)), Entry(stringify(ReadUser))}
RawStreaks == StartStreaks \cup {BadItem}
RawHistories ==
    { NoHistory, BadHistory,
      HistoryItem(<<[id |-> "a1", reward |-> 5000, date |-> StartNow - 1]>>) }

\* the page is opened: nothing is mounted yet
InitBoot ==
    \E c \in RawCaches, item \in RawStreaks, h \in RawHistories :
        /\ InitSession(DefaultUser, NoDoc, 0)
        /\ tasks = NoTasksDone
        /\ streak = ZeroStreak
        /\ streakStore = item
        /\ prevHabit = [tasks |-> NoTasksDone, streak |-> ZeroStreak]
        /\ advanceDays = <<>>
        /\ cache = c
        /\ readHistory = <<>>
        /\ historyStore = h
        /\ boot = [b \in Buckets |-> Booted("pending", "none")]
        /\ InitGames(1)

StartUsers == {DefaultUser, LowUser}
\* a document that holds only some of the account's fields
PartialData == [balance |-> 250000, streak |-> 3]
RemoteDocs == {NoDoc, Doc(DefaultUser), Doc(ReadUser), Doc(PartialData)}

Init == \E u \in StartUsers, doc \in RemoteDocs : InitWith(u, doc, MaxOps)

InitLedger == \E u \in StartUsers : InitWith(u, NoDoc, MaxOps)

InitTransact ==
    \E u \in {DefaultUser, LowUser, txPrefill(TxCap - 2), txPrefill(TxCap)} :
        InitWith(u, NoDoc, MaxTransactOps)

InitLogin ==
    \E u \in {DefaultUser, LowUser, loginPrefill(2),
               loginPrefill(LoginDatesCap - 1), loginPrefill(LoginDatesCap)} :
        InitWith(u, NoDoc, MaxLoginOps)

----------------------------------------------------------------------------
(* Specifications *)

NextLedger ==
    \/ Tick({HoursPerDay})
    \/ transact(McqInputs)
    \/ login({0})
    \/ markArticleRead
    \/ invest
    \/ realizeInvestment

Next ==
    \/ NextLedger
    \/ authStateChanged
    \/ loadMerge
    \/ loadCreate
    \/ writeDone

InitHabit ==
    \E item \in StartStreaks :
        /\ InitAccount(DefaultUser, NoDoc, MaxHabitOps)
        /\ InitHabitWith(item)
        /\ InitGames(1)

NextHabit == Tick({1, HoursPerDay}) \/ toggleTask \/ handleReset

NextTransact == Tick({1}) \/ transact(TxInputs)

InitCache ==
    \E u \in {DefaultUser, FullUser}, doc \in {NoDoc, Doc(ReadUser)} :
        InitWith(u, doc, MaxCacheOps)

NextCache == Next \/ reload

InitArticles == InitWith(DefaultUser, NoDoc, MaxArticleOps)

NextArticles == Tick({1}) \/ handleQuizComplete

InitToasts == InitWith(DefaultUser, NoDoc, MaxToastOps)

NextToasts == push \/ toastTimeout \/ Elapse({500, 1500})

InitStock == \E u \in StartUsers : InitWith(u, NoDoc, MaxStockOps)

NextStock == buyStock \/ sellStock \/ priceTick

InitDream ==
    \E u \in StartUsers :
        /\ InitAccount(u, NoDoc, MaxDreamOps)
        /\ InitHabitWith(NoItem)
        /\ InitGames(1)

NextDream == handleChoice \/ sceneTimeout \/ sceneWait({SceneDelay \div 4, SceneDelay})

NextBoot == mountUserProvider \/ mountHabitTracker \/ mountArticlesPage

NextLogin == Tick({1, HoursPerDay}) \/ login(DstShifts)

Spec == Init /\ [][Next]_vars
SpecLedger == InitLedger /\ [][NextLedger]_vars
SpecTransact == InitTransact /\ [][NextTransact]_vars
SpecLogin == InitLogin /\ [][NextLogin]_vars
SpecHabit == InitHabit /\ [][NextHabit]_vars
SpecCache == InitCache /\ [][NextCache]_vars
SpecBoot == InitBoot /\ [][NextBoot]_vars
SpecArticles == InitArticles /\ [][NextArticles]_vars
SpecStock == InitStock /\ [][NextStock]_vars
SpecDream == InitDream /\ [][NextDream]_vars
\* the timer loop of the browser runs every timer that is due
SpecToasts == InitToasts /\ [][NextToasts]_vars /\ WF_vars(toastTimeout)

----------------------------------------------------------------------------
(* Claims *)

Last(s) == s[Len(s)]

\* the last step appended exactly one record to the log (oldest dropped at the cap)
AppendedOne ==
    /\ Len(user.transactions) > 0
    /\ user.transactions = sliceLast(Append(prev.transactions, Last(user.transactions)), TxCap)

C2_BalanceChangeLogged ==
    (op.name \in {"transact", "login", "markArticleRead", "realizeInvestment"}
        /\ user.balance # prev.balance)
    => (AppendedOne /\ Last(user.transactions).balanceAfter = user.balance)

\* C3: transact(amount) sets the balance to max(0, balance + amount) and appends
\* one record with the amount as requested and balanceAfter the new balance.
C3_TransactEffect ==
    op.name = "transact" =>
        /\ user.balance = Max(0, prev.balance + op.amount)
        /\ AppendedOne
        /\ Last(user.transactions).amount = op.amount
        /\ Last(user.transactions).balanceAfter = user.balance

\* C3 witness: a transact whose result was clamped at zero.
C3_Witness ==
    /\ op.name = "transact"
    /\ prev.balance + op.amount < 0
    /\ Last(user.transactions).amount = op.amount
    /\ Last(user.transactions).amount # user.balance - prev.balance

\* C4: after N transact calls from an empty log the log has min(N, 200) entries,
\* the most recent records in the order they were applied.
C4_LogIsRecentSuffix ==
    /\ Len(user.transactions) = Min(Len(hist), TxCap)
    /\ \A i \in 1..Len(user.transactions) :
          user.transactions[i] = hist[Len(hist) - Len(user.transactions) + i]

\* C4 witness: more than 200 records were created and the oldest were dropped.
C4_Witness ==
    /\ op.name = "transact"
    /\ Len(hist) > TxCap + 1
    /\ Len(user.transactions) = TxCap
    /\ user.transactions[1] = hist[Len(hist) - TxCap + 1]
    /\ user.transactions[1] # hist[1]

RECURSIVE foldBalance(_, _)
\* b_i = max(0, b_(i-1) + a_i), from b over the amounts
foldBalance(b, amounts) ==
    IF amounts = <<>> THEN b
    ELSE foldBalance(Max(0, b + Head(amounts)), Tail(amounts))

RECURSIVE sumOf(_)
sumOf(amounts) == IF amounts = <<>> THEN 0 ELSE Head(amounts) + sumOf(Tail(amounts))

\* no partial sum of the amounts, from b, is below zero
NoPartialSumBelowZero(b, amounts) ==
    \A i \in 1..Len(amounts) : b + sumOf(SubSeq(amounts, 1, i)) >= 0

\* C5: after transact calls a1..aN from balance b0 the balance is the left fold
\* b_i = max(0, b_(i-1) + a_i), the i-th record has balanceAfter b_i, and the
\* balance is b0 + sum(a_i) when no partial sum is below zero
\* (1000, -50, +500, -20 gives 1430, 3 records, the last with balanceAfter 1430).
C5_BalanceIsFold ==
    LET b0 == mountUser.balance
        n  == Len(calls)
    IN  /\ user.balance = foldBalance(b0, calls)
        /\ \A i \in 1..n :
              hist[Len(hist) - n + i].balanceAfter = foldBalance(b0, SubSeq(calls, 1, i))
        /\ NoPartialSumBelowZero(b0, calls) => user.balance = b0 + sumOf(calls)
        /\ (mountUser = DefaultUser /\ calls = <<-5000, 50000, -2000>>) =>
              /\ user.balance = 143000
              /\ Len(user.transactions) = 3
              /\ Last(user.transactions).balanceAfter = 143000

\* C5 witness: the run 1000, -50, +500, -20.
C5_Witness ==
    /\ mountUser = DefaultUser
    /\ calls = <<-5000, 50000, -2000>>
    /\ user.balance = 143000

\* C6: markArticleRead is idempotent per article: a call for an article already
\* read returns the state unchanged, a first call marks it and credits the
\* reward, and over a run of ledger operations the reward is credited once.
C6_MarkArticleReadIdempotent ==
    /\ op.name = "markArticleRead" =>
          IF prev.readArticles[op.article]
          THEN user = prev
          ELSE /\ user.readArticles[op.article]
               /\ user.balance = prev.balance + op.amount
               /\ \A a \in ArticleIds \ {op.article} :
                     user.readArticles[a] = prev.readArticles[a]
    /\ \A a \in ArticleIds :
          /\ paid[a] <= 1
          /\ user.readArticles[a] <=> (paid[a] = 1 \/ mountUser.readArticles[a])

\* C6 witness: a second markArticleRead for an article whose reward was paid.
C6_Witness ==
    /\ op.name = "markArticleRead"
    /\ prev.readArticles[op.article]
    /\ paid[op.article] = 1
    /\ user.balance = prev.balance

\* C7: once readArticles[id] is true it stays true in every later state, and a
\* markArticleRead for that id then leaves the balance alone.
C7_ReadIsIrreversible ==
    /\ \A a \in ArticleIds : prev.readArticles[a] => user.readArticles[a]
    /\ (op.name = "markArticleRead" /\ prev.readArticles[op.article])
          => user.balance = prev.balance
    /\ \A a \in ArticleIds : paid[a] <= 1

\* C8: login is idempotent within a calendar day: a login on the date of the
\* last login leaves streak and balance unchanged, so the streak changes only
\* at the login that first records a date.
C8_LoginSameDayIdempotent ==
    op.name = "login" =>
        /\ prev.lastLogin = todayStr(now) =>
              (user.streak = prev.streak /\ user.balance = prev.balance)
        /\ user.streak # prev.streak =>
              (todayStr(now) \notin Range(prev.loginDates)
                 /\ Last(dateHist) = todayStr(now))

\* C8 witness: a second login on the same date, the streak above 1.
C8_Witness ==
    /\ op.name = "login"
    /\ prev.lastLogin = todayStr(now)
    /\ prev.streak > 1
    /\ user.streak = prev.streak

\* C9: login on date T, the last login on another date: streak + 1 and
\* balance + 10 when the last login was on T - 1; otherwise streak 1, and
\* balance max(0, balance - 20) when there was a last login, unchanged when not.
C9_StreakRule ==
    (op.name = "login" /\ prev.lastLogin # todayStr(now)) =>
        IF prev.lastLogin = todayStr(now) - 1
        THEN /\ user.streak = prev.streak + 1
             /\ user.balance = prev.balance + LoginBonus
        ELSE /\ user.streak = 1
             /\ user.balance = IF prev.lastLogin # NullDate
                               THEN Max(0, prev.balance - LoginPenalty)
                               ELSE prev.balance

\* C10: after a login loginDates holds the day's date; it never holds a date
\* twice nor more than 30 dates, and it is the last 30 of the distinct dates
\* recorded, in the order they were recorded.
C10_LoginDatesWindow ==
    /\ op.name = "login" => todayStr(now) \in Range(user.loginDates)
    /\ \A i, j \in 1..Len(user.loginDates) :
          i # j => user.loginDates[i] # user.loginDates[j]
    /\ Len(user.loginDates) = Min(Len(dateHist), LoginDatesCap)
    /\ \A i \in 1..Len(user.loginDates) :
          user.loginDates[i] = dateHist[Len(dateHist) - Len(user.loginDates) + i]

\* C10 witness: a login after more than 30 distinct dates were recorded.
C10_Witness ==
    /\ op.name = "login"
    /\ Len(dateHist) > LoginDatesCap + 1
    /\ Len(user.loginDates) = LoginDatesCap
    /\ user.loginDates[1] # dateHist[1]
    /\ Last(user.loginDates) = todayStr(now)

\* C11: realizeInvestment with an id that matches no open position returns the
\* state unchanged, for every multiplier.
C11_RealizeUnknownIsNoOp ==
    (op.name = "realizeInvestment"
        /\ \A i \in 1..Len(prev.investments) : prev.investments[i].id # op.posId)
    => user = prev

\* C11 witness: a realizeInvestment for an id not among the open positions.
C11_Witness ==
    /\ op.name = "realizeInvestment"
    /\ Len(prev.investments) > 0
    /\ \A i \in 1..Len(prev.investments) : prev.investments[i].id # op.posId
    /\ user = prev

\* C12: realizeInvestment(id, multiplier) for an open position with that id
\* credits round2(amount * multiplier) and removes that position and no other.
C12_RealizeRemovesOne ==
    LET k == findIndex(prev.investments, op.posId, 1) IN
    (op.name = "realizeInvestment" /\ k # 0) =>
        /\ user.balance = prev.balance
                          + round2(prev.investments[k].amount * op.mult.num, op.mult.den)
        /\ user.investments = removeAt(prev.investments, k)

\* C13: invest appends the position at the end of investments and changes
\* nothing else of the account.
C13_InvestFrame ==
    op.name = "invest" =>
        LET p == CHOOSE q \in Positions : q.id = op.posId /\ q.amount = op.amount IN
        /\ user.investments = Append(prev.investments, p)
        /\ user = [prev EXCEPT !.investments = user.investments]

\* C13 witness: an invest of a position behind a different open position.
C13_Witness ==
    /\ op.name = "invest"
    /\ Len(prev.investments) > 0
    /\ Last(user.investments).id = op.posId
    /\ prev.investments[1].id # op.posId

NoDuplicates(s) == \A i, j \in 1..Len(s) : i # j => s[i] # s[j]

\* C14: the streak advance fires at most once per calendar day however often
\* the tasks leave and re-enter the all-done state: no date is advanced on
\* twice, no date is twice in streak.history, and a toggle on the date of the
\* last completion leaves the streak as it is.
C14_AdvanceOncePerDay ==
    /\ NoDuplicates(advanceDays)
    /\ NoDuplicates(streak.history)
    /\ (op.name = "toggleTask" /\ prevHabit.streak.lastDate = todayStr(now))
          => streak = prevHabit.streak

\* C14 witness: the tasks re-enter all-done on a date the streak advanced on.
C14_Witness ==
    /\ op.name = "toggleTask"
    /\ allDone(tasks)
    /\ ~allDone(prevHabit.tasks)
    /\ todayStr(now) \in Range(advanceDays)
    /\ streak = prevHabit.streak

\* C15: a toggle that makes the tasks all done on a date T other than lastDate
\* sets current to current + 1 when lastDate is T - 1 and to 1 otherwise, best
\* to max(best, current), lastDate to T and appends T to history; any other
\* toggle leaves the streak unchanged.
C15_AdvanceRule ==
    op.name = "toggleTask" =>
        LET T   == todayStr(now)
            old == prevHabit.streak
            cur == IF old.lastDate = T - 1 THEN old.current + 1 ELSE 1
        IN  IF allDone(tasks) /\ old.lastDate # T
            THEN streak = [ current  |-> cur,
                            best     |-> Max(old.best, cur),
                            lastDate |-> T,
                            history  |-> Append(old.history, T) ]
            ELSE streak = old

\* C16: a confirmed reset leaves current 0, best 0, lastDate null, history empty
\* and every task not done, and triggers no streak advance.
C16_ResetClears ==
    op.name = "handleReset" =>
        /\ streak = ZeroStreak
        /\ tasks = NoTasksDone
        /\ advanceDays = <<>>
        /\ ~streakStore.exists

\* C16 witness: a confirmed reset with every task done and a streak running.
C16_Witness ==
    /\ op.name = "handleReset"
    /\ allDone(prevHabit.tasks)
    /\ prevHabit.streak.current > 0
    /\ streak = ZeroStreak

\* C17: when the load finds a remote document, every field the document holds has
\* the document's value in the account after the merge, every other field keeps
\* the value it had, and "Progress loaded" is pushed.
C17_LoadMergeRemoteWins ==
    op.name = "loadMerge" =>
        /\ DOMAIN user = DOMAIN prev \cup DOMAIN remote.data
        /\ \A f \in DOMAIN user :
              user[f] = IF f \in DOMAIN remote.data THEN remote.data[f] ELSE prev[f]
        /\ Toast("Progress loaded", 0, "success") \in Range(pushed)

\* C17 witness: a merge of a document that lacks some fields, over an account
\* that differs from the defaults in a missing field and from the document in a
\* field it holds.
C17_Witness ==
    /\ op.name = "loadMerge"
    /\ \E f \in DOMAIN prev \ DOMAIN remote.data : prev[f] # DefaultUser[f]
    /\ \E f \in DOMAIN remote.data : prev[f] # remote.data[f] /\ user[f] = remote.data[f]

\* C18: when the load finds no remote document, the document it writes is the
\* account as it is at the time of the write, and the completed write is followed
\* by the welcome notification.
C18_InitialDocIsCurrent ==
    /\ op.name = "loadCreate" => dispatched = <<Write("setDoc", user, "load")>>
    /\ (op.name = "writeDone" /\ done.w.from = "load") =>
           Toast("Welcome to FinTwitch!", 0, "success") \in Range(pushed)

LedgerOps == {"transact", "login", "markArticleRead", "invest", "realizeInvestment"}

\* C19: no write is dispatched before the identity is set; once it is set, every
\* step that changes the account dispatches exactly one updateDoc with the whole
\* new account; an update that fails dispatches exactly one setDoc with the same
\* data, and a write that succeeds dispatches nothing.
C19_SyncDispatch ==
    /\ ~firebaseUser => (writeLog = <<>> /\ inflight = <<>>)
    /\ (firebaseUser /\ op.name \in LedgerOps \cup {"loadMerge"} /\ user # prev) =>
           dispatched = <<Write("updateDoc", user, "sync")>>
    /\ (op.name = "writeDone" /\ ~done.ok) =>
           /\ done.w.kind = "updateDoc"
           /\ dispatched = <<Write("setDoc", done.w.data, "fallback")>>
    /\ (op.name = "writeDone" /\ done.ok) => dispatched = <<>>

\* C19 witness: a mutation dispatched its update in a session in which an earlier
\* update had failed and been followed by its fallback.
C19_Witness ==
    /\ op.name = "transact"
    /\ dispatched = <<Write("updateDoc", user, "sync")>>
    /\ \E i \in 1..Len(writeLog) : writeLog[i].from = "fallback"

\* C20: once every write the sync effect dispatched has completed (none of them
\* failed, no other write was sent), the remote document equals the account,
\* whatever the order in which the writes completed.
C20_RemoteEndsOnLatest ==
    ( /\ writeLog # <<>>
      /\ inflight = <<>>
      /\ \A i \in 1..Len(writeLog) : writeLog[i].from = "sync" ) =>
        (remote.exists /\ remote.data = user)

\* the ids of the records of a transaction log, in order
idsOf(txs) == [i \in 1..Len(txs) |-> txs[i].id]

\* C24: in every reachable state the ids of the records in the transaction log
\* are pairwise distinct, two transact calls at the same clock value included.
C24_TxIdsDistinct == NoDuplicates(idsOf(user.transactions))

\* C25: markArticleRead for an article already read and realizeInvestment for an
\* id that matches no position change nothing and push no notification; the
\* reward notification is pushed only by a step that credited the reward.
C25_NoOpsAreSilent ==
    /\ (op.name = "markArticleRead" /\ prev.readArticles[op.article]) =>
           (user = prev /\ pushed = <<>>)
    /\ (op.name = "realizeInvestment" /\ findIndex(prev.investments, op.posId, 1) = 0) =>
           (user = prev /\ pushed = <<>>)
    /\ (\E i \in 1..Len(pushed) : pushed[i].text = "Read article reward") =>
           user.balance = prev.balance + op.amount

\* C26: while a remote document exists and the load has not yet read it, no
\* write of this session has been applied to it.
C26_NoWriteBeforeRead ==
    ~( /\ op.name = "writeDone"
       /\ loadPc = "getDoc"
       /\ done.ok )

\* C21: in every state the cache holds an entry that parses to the account as it
\* is, whatever the remote writes do, and a reload starts from the account as it
\* was, field for field, a log of 200 records and 30 login dates included.
C21_CacheRoundTrips ==
    /\ cache.kind = "json"
    /\ parse(cache.data) = user
    /\ op.name = "reload" =>
          (\A f \in DOMAIN prev : user[f] = prev[f]) /\ DOMAIN user = DOMAIN prev

\* C21 witness: a reload while remote writes were pending, of an account changed
\* since startup whose log holds 200 records and whose login dates number 30.
C21_Witness ==
    /\ op.name = "reload"
    /\ op.amount > 0
    /\ Len(user.transactions) = TxCap
    /\ Len(user.loginDates) = LoginDatesCap
    /\ user # FullUser

\* C22: no bucket fails to initialise, and a bucket whose entry was absent or
\* malformed holds its default state once its component is mounted.
C22_BadCacheGivesDefaults ==
    /\ \A b \in Buckets : boot[b].status # "failed"
    /\ (boot["account"].status = "ok" /\ boot["account"].found \in {"absent", "malformed"})
          => user = DefaultUser
    /\ (boot["streak"].status = "ok" /\ boot["streak"].found \in {"absent", "malformed"})
          => streak = ZeroStreak
    /\ (boot["history"].status = "ok" /\ boot["history"].found \in {"absent", "malformed"})
          => readHistory = <<>>

RECURSIVE rewardsOf(_)
\* the sum of the rewards listed in a reading history
rewardsOf(h) == IF h = <<>> THEN 0 ELSE Head(h).reward + rewardsOf(Tail(h))

\* the total article reward credited to the balance
creditedRewards ==
    LET RECURSIVE total(_)
        total(S) == IF S = {} THEN 0
                    ELSE LET a == CHOOSE x \in S : TRUE
                         IN  paid[a.id] * a.reward + total(S \ {a})
    IN  total(Articles)

\* C30: each article id is at most once in the reading history, and the rewards
\* the history lists sum to the article reward credited to the balance.
C30_HistoryAgreesWithLedger ==
    /\ NoDuplicates([i \in 1..Len(readHistory) |-> readHistory[i].id])
    /\ rewardsOf(readHistory) = creditedRewards

\* the notification with this id is on display
shown(id) == \E k \in 1..Len(toasts) : toasts[k].id = id

\* the ttl of the notification with this id has elapsed
elapsed(id) == id <= Len(pushLog) /\ ms >= pushLog[id].at + pushLog[id].ttl

ToastSafety ==
    /\ NoDuplicates([k \in 1..Len(toasts) |-> toasts[k].id])
    /\ \A id \in 1..Len(pushLog) : ~elapsed(id) => shown(id)
    /\ op.name = "toastTimeout" =>
          \E k \in 1..Len(prevToasts) :
              prevToasts[k].id = op.posId /\ toasts = removeAt(prevToasts, k)
    /\ op.name = "push" =>
          (Len(toasts) = Len(prevToasts) + 1 /\ SubSeq(toasts, 1, Len(prevToasts)) = prevToasts)

\* C23: every notification is on display until its own ttl has elapsed, the
\* removal by its timer removes it and nothing else, and once its ttl has
\* elapsed it is eventually removed.
C23_ToastLifetime ==
    /\ []ToastSafety
    /\ \A id \in 1..MaxToastOps : (shown(id) /\ elapsed(id)) ~> ~shown(id)

\* C23 witness: a timer removed a notification pushed later than one that is
\* still on display and whose ttl has not elapsed.
C23_Witness ==
    /\ op.name = "toastTimeout"
    /\ Len(toasts) > 0
    /\ toasts[1].id < op.posId
    /\ ~elapsed(toasts[1].id)

RECURSIVE buyPricesOf(_)
\* the sum of the buy prices of the holdings
buyPricesOf(p) == IF p = <<>> THEN 0 ELSE Head(p).buyPrice + buyPricesOf(Tail(p))

\* C29: over buys, sells and price updates the balance plus the buy prices of
\* the holdings equals the balance at the start; a buy with balance < price
\* changes nothing; a sell credits the price recorded for the holding sold.
C29_StockConservation ==
    /\ user.balance + buyPricesOf(portfolio) = startBalance
    /\ op.name = "buyRejected" =>
          (prev.balance < -op.amount /\ user = prev /\ portfolio = prevPortfolio)
    /\ op.name = "buyStock" => prev.balance >= -op.amount
    /\ op.name = "sellStock" =>
          /\ user.balance = prev.balance + prevPortfolio[op.posId].buyPrice
          /\ portfolio = removeAt(prevPortfolio, op.posId)

\* C29 witness: a holding was sold after the price of its stock had moved away
\* from the price it was bought at.
C29_Witness ==
    /\ op.name = "sellStock"
    /\ stocks[op.article] # prevPortfolio[op.posId].buyPrice
    /\ user.balance = startBalance

\* C27: in DreamLifePlanner a scene's choice is applied at most once per visit
\* to the scene: between an accepted choice and the delayed scene advance no
\* further choice of that scene is applied, so a visit yields at most one
\* transaction and one stats update.
C27_OneChoicePerVisit == visitChoices <= 1

\* C28: in DreamLifePlanner the scene index denotes a defined scene (1..4) in
\* every reachable state, under any interleaving of choice clicks and pending
\* scene-advance timers.
C28_SceneIsDefined == hasSceneData(scene)

====
